---------------------------- MODULE Spec2Model ----------------------------
(* Lights Out solver (src/main.py): matrix construction, Gaussian          *)
(* elimination over GF(2), back-substitution, and the replay verifier.     *)
(* Arrays are functions on 0-based index ranges, as in the source.         *)
EXTENDS Integers, FiniteSets, Sequences, TLC

(* Largest number of cells R*C of a board drawn as input. *)
MaxCells == 6

VARIABLES board, rows, cols, n, m, A, b, aug, pivot_row, col, row, x,
          pivots, solution, ret, result, pc

vars == <<board, rows, cols, n, m, A, b, aug, pivot_row, col, row, x,
          pivots, solution, ret, result, pc>>

Bit == {0, 1}

(* len(v) of a 0-based array *)
Len0(v) == Cardinality(DOMAIN v)

Min(p, q) == IF p < q THEN p ELSE q

(* Well-formed inputs: R >= 1, C >= 1, every cell 0 or 1. *)
Boards ==
  UNION { [0..(R-1) -> [0..(C-1) -> Bit]] :
            <<R, C>> \in { rc \in (1..MaxCells) \X (1..MaxCells) :
                             rc[1] * rc[2] <= MaxCells } }

(* ---------------- solve_lights_out: matrix construction --------------- *)

(* The light indices whose A entry is set to 1 in the loop body for
   button (i, j): itself and each in-bounds neighbour. *)
(* Faulty variant: the left neighbour is written without the j > 0 guard,
   so index -1 wraps as numpy indexing does. *)
LightsOfWrap(i, j, R, C) ==
  {i * C + j}
    \cup (IF i > 0 THEN {(i-1) * C + j} ELSE {})
    \cup (IF i < R - 1 THEN {(i+1) * C + j} ELSE {})
    \cup {(i * C + (j-1)) % (R * C)}
    \cup (IF j < C - 1 THEN {i * C + (j+1)} ELSE {})

LightsOf(i, j, R, C) ==
  {i * C + j}
    \cup (IF i > 0 THEN {(i-1) * C + j} ELSE {})
    \cup (IF i < R - 1 THEN {(i+1) * C + j} ELSE {})
    \cup (IF j > 0 THEN {i * C + (j-1)} ELSE {})
    \cup (IF j < C - 1 THEN {i * C + (j+1)} ELSE {})

(* A after the double loop: zero except where some iteration wrote 1. *)
BuildA(R, C) ==
  [light \in 0..(R*C - 1) |->
    [button \in 0..(R*C - 1) |->
      IF \E i \in 0..(R-1), j \in 0..(C-1) :
           button = i * C + j /\ light \in LightsOf(i, j, R, C)
      THEN 1 ELSE 0]]

(* b = [board[i][j] for i in range(rows) for j in range(cols)] *)
Flatten(B, R, C) ==
  [k \in 0..(R*C - 1) |-> B[k \div C][k % C]]

(* solution[i][j] = solution_vector[i * cols + j] *)
Reshape(v, R, C) ==
  [i \in 0..(R-1) |-> [j \in 0..(C-1) |-> v[i * C + j]]]

(* ---------------- gaussian_elimination_gf2 helpers -------------------- *)

(* np.column_stack([A.copy(), b.copy()]) *)
ColumnStack(M, v) ==
  [r \in DOMAIN M |->
    [c \in 0..Len0(M[r]) |-> IF c < Len0(M[r]) THEN M[r][c] ELSE v[r]]]

(* aug[[p, r]] = aug[[r, p]] *)
(* Faulty variant: swap through views, the second assignment reads the
   already overwritten row. *)
SwapRowsAliased(M, p, r) == [M EXCEPT ![p] = M[r]]

SwapRows(M, p, r) == [M EXCEPT ![p] = M[r], ![r] = M[p]]

(* (aug[row] + aug[pivot_row]) % 2 *)
(* Faulty variant: the target column is left out of the row addition. *)
AddRowMod2NoTarget(a, p) ==
  [c \in DOMAIN a |-> IF c = Len0(a) - 1 THEN a[c] ELSE (a[c] + p[c]) % 2]

AddRowMod2(a, p) == [c \in DOMAIN a |-> (a[c] + p[c]) % 2]

(* the guard of the elimination loop body *)
(* Faulty variant: only rows below the pivot row are eliminated. *)
ShouldEliminateBelow(M, r, p, c) == r > p /\ M[r][c] = 1

ShouldEliminate(M, r, p, c) == r # p /\ M[r][c] = 1

(* x = np.zeros(m) *)
(* Faulty variant: x starts as all ones. *)
XInitOnes(k) == [c \in 0..(k-1) |-> 1]

XInit(k) == [c \in 0..(k-1) |-> 0]

(* first row index of the back-substitution loop *)
(* Faulty variant: back-substitution starts at the last row n-1. *)
BackStartRowAll(p, k) == k - 1

BackStartRow(p, k) == Min(p, k) - 1

(* first column with a 1 in the row, or -1 *)
(* Faulty variant: the last column with a 1 is taken as leading. *)
LeadingColLast(a, k) ==
  IF \E c \in 0..(k-1) : a[c] = 1
  THEN CHOOSE c \in 0..(k-1) :
         a[c] = 1 /\ \A d \in 0..(k-1) : a[d] = 1 => d <= c
  ELSE -1

LeadingCol(a, k) ==
  IF \E c \in 0..(k-1) : a[c] = 1
  THEN CHOOSE c \in 0..(k-1) :
         a[c] = 1 /\ \A d \in 0..(k-1) : a[d] = 1 => c <= d
  ELSE -1

(* val after the inner loop has visited columns lead+1 .. c-1 *)
RECURSIVE BackVal(_, _, _, _, _)
BackVal(a, xs, lead, c, k) ==
  IF c <= lead + 1
  THEN a[k]
  ELSE (BackVal(a, xs, lead, c - 1, k) + a[c-1] * xs[c-1]) % 2

(* ---------------- verify_solution ------------------------------------- *)

Toggle(g, i, j) == [g EXCEPT ![i][j] = 1 - g[i][j]]

PressCell(g, i, j, R, C) ==
  LET g0 == Toggle(g, i, j)
      g1 == IF i > 0 THEN Toggle(g0, i-1, j) ELSE g0
      g2 == IF i < R - 1 THEN Toggle(g1, i+1, j) ELSE g1
      g3 == IF j > 0 THEN Toggle(g2, i, j-1) ELSE g2
      g4 == IF j < C - 1 THEN Toggle(g3, i, j+1) ELSE g3
  IN g4

(* result after the loops have visited the first k cells in row-major
   order *)
RECURSIVE Replay(_, _, _, _, _)
Replay(B, S, k, R, C) ==
  IF k = 0
  THEN B
  ELSE LET prev == Replay(B, S, k - 1, R, C)
           i == (k - 1) \div C
           j == (k - 1) % C
       IN IF S[i][j] = 1 THEN PressCell(prev, i, j, R, C) ELSE prev

AllOff(g) == \A i \in DOMAIN g : \A j \in DOMAIN g[i] : g[i][j] = 0

(* ---------------- state machine --------------------------------------- *)

Init ==
  /\ board \in Boards
  /\ rows = 0 /\ cols = 0 /\ n = 0 /\ m = 0
  /\ A = <<>> /\ b = <<>> /\ aug = <<>>
  /\ pivot_row = 0 /\ col = 0 /\ row = 0
  /\ x = <<>> /\ pivots = {}
  /\ solution = <<>> /\ ret = "unset" /\ result = <<>>
  /\ pc = "start"

(* solve_lights_out up to the call of the solver *)
BuildMatrix ==
  /\ pc = "start"
  /\ rows' = Len0(board)
  /\ cols' = Len0(board[0])
  /\ n' = rows' * cols'
  /\ A' = BuildA(rows', cols')
  /\ b' = Flatten(board, rows', cols')
  /\ pc' = "call"
  /\ UNCHANGED <<board, m, aug, pivot_row, col, row, x, pivots, solution, ret, result>>

(* entry of gaussian_elimination_gf2 *)
CopyAug ==
  /\ pc = "call"
  /\ m' = Len0(A[0])
  /\ aug' = ColumnStack(A, b)
  /\ pivot_row' = 0
  /\ col' = 0
  /\ pc' = "scan"
  /\ UNCHANGED <<board, rows, cols, n, A, b, row, x, pivots, solution, ret, result>>

PivotCandidates == { r \in pivot_row..(n-1) : aug[r][col] = 1 }

(* pivot search succeeds: swap the first row with a 1 into pivot_row *)
FindPivot ==
  /\ pc = "scan" /\ col < m
  /\ PivotCandidates # {}
  /\ LET r == CHOOSE r \in PivotCandidates : \A q \in PivotCandidates : r <= q
     IN aug' = SwapRows(aug, pivot_row, r)
  /\ pivots' = pivots \cup {col}
  /\ row' = 0
  /\ pc' = "elim"
  /\ UNCHANGED <<board, rows, cols, n, m, A, b, pivot_row, col, x, solution, ret, result>>

(* pivot search fails: continue with the next column *)
NoPivot ==
  /\ pc = "scan" /\ col < m
  /\ PivotCandidates = {}
  /\ col' = col + 1
  /\ UNCHANGED <<board, rows, cols, n, m, A, b, aug, pivot_row, row, x, pivots,
                 solution, ret, result, pc>>

(* one iteration of the elimination loop *)
(* Faulty variant: elimination on A and b themselves, no copy. *)
EliminateRowInPlace ==
  /\ pc = "elim" /\ row < n
  /\ aug' = IF ShouldEliminate(aug, row, pivot_row, col)
            THEN [aug EXCEPT ![row] = AddRowMod2(aug[row], aug[pivot_row])]
            ELSE aug
  /\ A' = [r \in DOMAIN A |-> [c \in DOMAIN A[r] |-> aug'[r][c]]]
  /\ b' = [r \in DOMAIN b |-> aug'[r][m]]
  /\ row' = row + 1
  /\ UNCHANGED <<board, rows, cols, n, m, pivot_row, col, x, pivots,
                 solution, ret, result, pc>>

EliminateRow ==
  /\ pc = "elim" /\ row < n
  /\ aug' = IF ShouldEliminate(aug, row, pivot_row, col)
            THEN [aug EXCEPT ![row] = AddRowMod2(aug[row], aug[pivot_row])]
            ELSE aug
  /\ row' = row + 1
  /\ UNCHANGED <<board, rows, cols, n, m, A, b, pivot_row, col, x, pivots,
                 solution, ret, result, pc>>

(* end of the column's iteration *)
AdvancePivot ==
  /\ pc = "elim" /\ row = n
  /\ pivot_row' = pivot_row + 1
  /\ col' = col + 1
  /\ pc' = "scan"
  /\ UNCHANGED <<board, rows, cols, n, m, A, b, aug, row, x, pivots,
                 solution, ret, result>>

(* forward loop exhausted: set up back-substitution *)
StartBackSub ==
  /\ pc = "scan" /\ col = m
  /\ x' = XInit(m)
  /\ row' = BackStartRow(pivot_row, n)
  /\ pc' = "back"
  /\ UNCHANGED <<board, rows, cols, n, m, A, b, aug, pivot_row, col, pivots,
                 solution, ret, result>>

(* one iteration of the back-substitution loop, its return included *)
BackSubRow ==
  /\ pc = "back" /\ row >= 0
  /\ LET lead == LeadingCol(aug[row], m)
     IN IF lead = -1
        THEN IF aug[row][m] = 1
             THEN /\ ret' = "None"
                  /\ pc' = "done"
                  /\ UNCHANGED <<x, row>>
             ELSE /\ row' = row - 1
                  /\ UNCHANGED <<x, ret, pc>>
        ELSE /\ x' = [x EXCEPT ![lead] = BackVal(aug[row], x, lead, m, m)]
             /\ row' = row - 1
             /\ UNCHANGED <<ret, pc>>
  /\ UNCHANGED <<board, rows, cols, n, m, A, b, aug, pivot_row, col, pivots,
                 solution, ret, result>>

(* return x, reshaped into a grid by solve_lights_out *)
ReturnX ==
  /\ pc = "back" /\ row < 0
  /\ solution' = Reshape(x, rows, cols)
  /\ ret' = "grid"
  /\ pc' = "done"
  /\ UNCHANGED <<board, rows, cols, n, m, A, b, aug, pivot_row, col, row, x,
                 pivots, result>>

(* verify_solution(board, solution) *)
Verify ==
  /\ pc = "done" /\ ret # "None"
  /\ result' = Replay(board, solution, rows * cols, rows, cols)
  /\ pc' = "verified"
  /\ UNCHANGED <<board, rows, cols, n, m, A, b, aug, pivot_row, col, row, x,
                 pivots, solution, ret>>

Next ==
  \/ BuildMatrix
  \/ CopyAug
  \/ FindPivot
  \/ NoPivot
  \/ EliminateRow
  \/ AdvancePivot
  \/ StartBackSub
  \/ BackSubRow
  \/ ReturnX
  \/ Verify

Spec == Init /\ [][Next]_vars

(* ---------------- properties ------------------------------------------ *)

Grids(R, C) == [0..(R-1) -> [0..(C-1) -> Bit]]

(* some subset of button presses turns every light of B off *)
Solvable(B) ==
  LET R == Len0(B)
      C == Len0(B[0])
  IN \E S \in Grids(R, C) : AllOff(Replay(B, S, R * C, R, C))

Returned == pc \in {"done", "verified"}

ForwardDone == (pc = "scan" /\ col = m) \/ pc \in {"back", "done", "verified"}

(* sum over columns 0..c-1 of a[c] * v[c], modulo 2 *)
RECURSIVE Dot(_, _, _)
Dot(a, v, c) == IF c = 0 THEN 0 ELSE (Dot(a, v, c - 1) + a[c-1] * v[c-1]) % 2

(* v satisfies every equation (row) of the augmented matrix M *)
Satisfies(M, v, k) == \A r \in DOMAIN M : Dot(M[r], v, k) = M[r][k]

(* C1: whenever the solver returns a grid, replaying it against the board
   with the toggle rule leaves every light off. *)
C1_ReplayAllOff == pc = "verified" => AllOff(result)

(* C2: a board that no subset of presses solves yields the no-solution
   result; in particular a row at or below pivot_row whose target entry is
   1 after forward elimination makes the solver return None. *)
C2_UnsolvableReturnsNone ==
  Returned =>
    /\ (~Solvable(board) => ret = "None")
    /\ ((\E r \in pivot_row..(n-1) : aug[r][m] = 1) => ret = "None")

(* C3: a board that some subset of presses solves never yields None: a grid
   is returned and its replay leaves every light off. *)
C3_SolvableSolved ==
  (Returned /\ Solvable(board)) =>
    /\ ret = "grid"
    /\ (pc = "verified" => AllOff(result))

C3_Witness ==
  /\ pc = "verified" /\ Solvable(board) /\ ~AllOff(board)
  /\ ~AllOff(solution) /\ AllOff(result)

(* C4: the all-zero board yields the all-zero solution grid, not None. *)
C4_ZeroBoardZeroSolution ==
  (Returned /\ AllOff(board)) =>
    /\ ret = "grid"
    /\ solution = [i \in 0..(rows-1) |-> [j \in 0..(cols-1) |-> 0]]

C4_Witness ==
  /\ pc = "done" /\ AllOff(board) /\ ret = "grid" /\ AllOff(solution)
  /\ pivots # 0..(m-1)

(* C5: every column for which forward elimination found no pivot keeps
   x[col] = 0, during back-substitution and in the returned vector. *)
C5_FreeVariablesZero ==
  (pc = "back" \/ (Returned /\ ret = "grid")) =>
    \A c \in 0..(m-1) : c \notin pivots => x[c] = 0

C5_Witness ==
  /\ pc = "done" /\ ret = "grid"
  /\ \E c \in 0..(m-1) : c \notin pivots
  /\ \E c \in 0..(m-1) : x[c] = 1

(* C6: A[light][button] is 1 exactly when the two cells are the same cell
   or 4-adjacent in the grid, without wraparound, and 0 otherwise. *)
SameOrAdjacent(p, q, C) ==
  LET pr == p \div C
      pcol == p % C
      qr == q \div C
      qcol == q % C
  IN \/ p = q
     \/ (pr = qr /\ (pcol - qcol = 1 \/ qcol - pcol = 1))
     \/ (pcol = qcol /\ (pr - qr = 1 \/ qr - pr = 1))

C6_MatrixIsAdjacency ==
  pc # "start" =>
    /\ DOMAIN A = 0..(rows * cols - 1)
    /\ \A light \in DOMAIN A :
         /\ DOMAIN A[light] = 0..(rows * cols - 1)
         /\ \A button \in DOMAIN A[light] :
              A[light][button] =
                IF SameOrAdjacent(light, button, cols) THEN 1 ELSE 0

C6_Witness ==
  /\ pc = "call" /\ rows >= 2 /\ cols >= 3
  /\ A[cols - 1][cols] = 0 /\ A[0][cols] = 1

(* C7: a solve leaves its inputs unchanged: no step changes the board, and
   once A and b are built no step of the solver changes them. *)
C7_InputsUnchanged ==
  [][/\ board' = board
     /\ (pc # "start" => (A' = A /\ b' = b))]_vars

C7_Witness ==
  /\ pc = "done"
  /\ aug # ColumnStack(A, b)
  /\ A = BuildA(Len0(board), Len0(board[0]))
  /\ b = Flatten(board, Len0(board), Len0(board[0]))

(* C8: when the forward loop has finished the augmented matrix is in
   reduced row-echelon form: rows pivot_row..n-1 have all-zero coefficient
   entries, and every pivot column has a 1 in exactly one row, which lies
   above pivot_row. *)
C8_ReducedRowEchelon ==
  ForwardDone =>
    /\ \A r \in pivot_row..(n-1) : \A c \in 0..(m-1) : aug[r][c] = 0
    /\ \A c \in pivots :
         /\ Cardinality({r \in 0..(n-1) : aug[r][c] = 1}) = 1
         /\ \E r \in 0..(pivot_row-1) : aug[r][c] = 1
    /\ Cardinality(pivots) = pivot_row

C8_Witness ==
  /\ pc = "back" /\ pivot_row >= 3 /\ pivot_row < n
  /\ aug # ColumnStack(A, b)

C10_SolutionSetPreserved ==
  pc \in {"scan", "elim"} =>
    /\ \A r \in DOMAIN aug : \A c \in DOMAIN aug[r] : aug[r][c] \in Bit
    /\ LET orig == ColumnStack(A, b)
       IN \A v \in [0..(m-1) -> Bit] :
            Satisfies(aug, v, m) <=> Satisfies(orig, v, m)

C10_Witness ==
  /\ pc = "elim" /\ row = n /\ pivot_row >= 1
  /\ aug[pivot_row] # ColumnStack(A, b)[pivot_row]
  /\ \E r \in 0..(n-1) : r # pivot_row /\ aug[r] # ColumnStack(A, b)[r]

=============================================================================
